---- MODULE Spec2Model ----
(***************************************************************************)
(* Lithium testcase representation and splitters                           *)
(* (src/src/lithium/testcases.py).                                         *)
(*                                                                         *)
(* A byte is a one-character string, a bytes object a sequence of bytes,   *)
(* a Python list a sequence.  Python indices are 0-based; the sequences    *)
(* here are 1-based, so parts[i] of the code is parts[i + 1] here.         *)
(* An optional value (None or a value) is a sequence of length 0 or 1.     *)
(***************************************************************************)
EXTENDS Integers, Sequences, FiniteSets, TLC

\* fs    the files on disk: path -> None or Some(content)
\* tc    the testcase instance under reduction
\* cp    None, or Some(the instance the last copy() returned)
\* err   how the last load of tc ended: "new" (never loaded), "ok", or the
\*       exception it raised
\* orig  history: Some(content read by the last successful load of tc) while
\*       tc.rmslice has not been called since, else None
\* last  history: the last call, its arguments, the instances before it and
\*       what it returned or handed on
\* nops  the number of calls made so far
VARIABLES fs, tc, cp, err, orig, last, nops

vars == <<fs, tc, cp, err, orig, last, nops>>

(***************************************************************************)
(* Bounds of the model.                                                    *)
(***************************************************************************)
\* lines of a file loaded under Spec
MaxLines == 3
\* calls made under Spec
MaxLoadOps == 2
\* calls made under SpecLife
MaxLifeOps == 3
\* slice bounds handed to rmslice under SpecLife range over
\* -MaxLifeBound..MaxLifeBound, and None
MaxLifeBound == 1
\* parts of the testcase SpecXlat starts from
MaxParts == 3
\* slice bounds handed to _slice_xlat / rmslice under SpecXlat range over
\* -MaxBound..MaxBound, and None
MaxBound == 3
\* calls made under SpecXlat
MaxXlatOps == 1
\* bytes of a payload split under SpecSymbol
MaxPayload == 5
\* pieces of a payload split under SpecJs
MaxJs == 4
\* calls made under SpecJs
MaxJsOps == 1
\* calls made under SpecSplit
MaxSplitOps == 2
\* bytes of a payload split under SpecCut
MaxCutPayload == 3
\* calls made under SpecCut
MaxCutOps == 2

(***************************************************************************)
(* Python helpers.                                                         *)
(***************************************************************************)
None == <<>>

Some(x) == <<x>>

Max(a, b) == IF a >= b THEN a ELSE b

Min(a, b) == IF a <= b THEN a ELSE b

\* s[lo:hi] of a Python sequence (0-based bounds, negative bounds count
\* from the end, out-of-range bounds are clipped, lo >= hi gives [])
PySlice(s, lo, hi) ==
    LET n == Len(s)
        a == IF lo < 0 THEN Max(lo + n, 0) ELSE Min(lo, n)
        b == IF hi < 0 THEN Max(hi + n, 0) ELSE Min(hi, n)
    IN  IF a >= b THEN <<>> ELSE SubSeq(s, a + 1, b)

\* s[i] of a Python list: [ok |-> FALSE] stands for IndexError
PyIndex(s, i) ==
    LET n == Len(s)
        j == IF i < 0 THEN i + n ELSE i
    IN  IF j < 0 \/ j >= n THEN [ok |-> FALSE, val |-> 0]
        ELSE [ok |-> TRUE, val |-> s[j + 1]]

\* b"".join(list)
RECURSIVE Join(_)
Join(list) ==
    IF list = <<>> THEN <<>> ELSE Head(list) \o Join(Tail(list))

\* [x] * n
Repeat(x, n) == [i \in 1..n |-> x]

\* list.count(x)
Count(list, x) == Cardinality({i \in 1..Len(list) : list[i] = x})

(***************************************************************************)
(* Testcase: the base class.                                               *)
(***************************************************************************)
Classes == {"TestcaseLine", "TestcaseChar", "TestcaseJsStr", "TestcaseSymbol"}

DEFAULT_CUT_AFTER == {"?", "=", ";", "{", "[", "\n"}

DEFAULT_CUT_BEFORE == {"]", "}", ":"}

\* Testcase.__init__; TestcaseSymbol.__init__ also compiles the default
\* cutter, the other classes have no cutter (kept as two empty sets)
NewTestcase(cls) ==
    [cls |-> cls,
     before |-> <<>>,
     after |-> <<>>,
     parts |-> <<>>,
     reducible |-> <<>>,
     filename |-> None,
     extension |-> None,
     cut_before |-> IF cls = "TestcaseSymbol" THEN DEFAULT_CUT_BEFORE ELSE {},
     cut_after |-> IF cls = "TestcaseSymbol" THEN DEFAULT_CUT_AFTER ELSE {}]

\* Testcase.__len__
LenSelf(self) == Len(self.parts) - Count(self.reducible, FALSE)

\* _clamp faulted to leave a negative bound below -len(self) negative
ClampNoFloor(bound, default, len_self) ==
    IF bound = None THEN default
    ELSE IF bound[1] < 0 THEN len_self + bound[1]
    ELSE IF bound[1] > len_self THEN len_self
    ELSE bound[1]

\* _clamp, the closure of _slice_xlat (bound is None or Some(int))
Clamp(bound, default, len_self) ==
    IF bound = None THEN default
    ELSE IF bound[1] < 0 THEN Max(len_self + bound[1], 0)
    ELSE IF bound[1] > len_self THEN len_self
    ELSE bound[1]

\* [i for i in range(len(self.parts)) if self.reducible[i]]; reading
\* reducible[i] beyond its end is an IndexError (ok = FALSE)
ReducibleIndices(self) ==
    LET n == Len(self.parts)
        idx == [i \in 1..n |-> i - 1]
    IN  IF n > Len(self.reducible) THEN [ok |-> FALSE, val |-> <<>>]
        ELSE [ok |-> TRUE,
              val |-> SelectSeq(idx, LAMBDA i : self.reducible[i + 1])]

\* opts[start], opts[stop]: the pair returned, ok = FALSE for IndexError
XlatPair(a, b) ==
    IF a.ok /\ b.ok THEN [ok |-> TRUE, start |-> a.val, stop |-> b.val]
    ELSE [ok |-> FALSE, start |-> 0, stop |-> 0]

\* _slice_xlat faulted to keep the index of the first reducible part in
\* opts: opts = [0] + opts + [len(self.parts)]
XlatOptsAll(red, nparts, cstart, cstop) ==
    IF ~red.ok THEN [ok |-> FALSE, start |-> 0, stop |-> 0]
    ELSE XlatPair(PyIndex(<<0>> \o red.val \o <<nparts>>, cstart),
                  PyIndex(<<0>> \o red.val \o <<nparts>>, cstop))

\* opts = [0] + opts[1:] + [len(self.parts)], indexed by the clamped bounds
XlatOpts(red, nparts, cstart, cstop) ==
    IF ~red.ok THEN [ok |-> FALSE, start |-> 0, stop |-> 0]
    ELSE XlatPair(
           PyIndex(<<0>> \o PySlice(red.val, 1, Len(red.val)) \o <<nparts>>, cstart),
           PyIndex(<<0>> \o PySlice(red.val, 1, Len(red.val)) \o <<nparts>>, cstop))

\* Testcase._slice_xlat: the physical bounds, or ok = FALSE for IndexError
SliceXlat(self, start, stop) ==
    XlatOpts(ReducibleIndices(self), Len(self.parts),
             Clamp(start, 0, LenSelf(self)),
             Clamp(stop, LenSelf(self), LenSelf(self)))

\* rmslice faulted to keep nothing of the window
KeepNothing(self, start, stop) == <<>>

\* keep = [x for i, x in enumerate(self.parts[start:stop])
\*         if not self.reducible[start + i]]
Keep(self, start, stop) ==
    LET window == PySlice(self.parts, start, stop)
        idx == [i \in 1..Len(window) |-> i - 1]
        kept == SelectSeq(idx, LAMBDA i : ~self.reducible[start + i + 1])
    IN  [k \in 1..Len(kept) |-> window[kept[k] + 1]]

\* rmslice faulted to keep the surviving fixed parts of the window without
\* writing their flags
RmAssignNoFlags(self, x, keep) ==
    [self EXCEPT
       !.parts = PySlice(self.parts, 0, x.start) \o keep
                 \o PySlice(self.parts, x.stop, Len(self.parts)),
       !.reducible = PySlice(self.reducible, 0, x.start)
                     \o PySlice(self.reducible, x.stop, Len(self.reducible))]

\* the two assignments of rmslice, for physical bounds x and the kept parts
RmAssign(self, x, keep) ==
    [self EXCEPT
       !.parts = PySlice(self.parts, 0, x.start) \o keep
                 \o PySlice(self.parts, x.stop, Len(self.parts)),
       !.reducible = PySlice(self.reducible, 0, x.start)
                     \o Repeat(FALSE, Len(keep))
                     \o PySlice(self.reducible, x.stop, Len(self.reducible))]

\* rmslice once _slice_xlat has returned x (self is left as it was when
\* _slice_xlat raised IndexError)
RmPhysical(self, x) ==
    IF ~x.ok THEN self ELSE RmAssign(self, x, Keep(self, x.start, x.stop))

\* Testcase.rmslice: the instance after the call
RmSlice(self, start, stop) == RmPhysical(self, SliceXlat(self, start, stop))

\* copy faulted to leave the new instance's reducible empty
CopyOfWithoutFlags(self) ==
    [NewTestcase(self.cls) EXCEPT
        !.before = self.before,
        !.after = self.after,
        !.parts = self.parts,
        !.filename = self.filename,
        !.extension = self.extension]

\* Testcase.copy: type(self)() runs the class's __init__, then the six
\* fields are assigned
CopyOf(self) ==
    [NewTestcase(self.cls) EXCEPT
        !.before = self.before,
        !.after = self.after,
        !.parts = self.parts,
        !.reducible = self.reducible,
        !.filename = self.filename,
        !.extension = self.extension]

(***************************************************************************)
(* Bytes helpers.                                                          *)
(***************************************************************************)
DDBEGIN == <<"D", "D", "B", "E", "G", "I", "N">>

DDEND == <<"D", "D", "E", "N", "D">>

\* data[lo:] for 0 <= lo
From(data, lo) == PySlice(data, lo, Len(data))

\* bytes.find(token): the lowest 0-based index of token in line, or -1
Find(line, token) ==
    LET hits == {i \in 0..(Len(line) - Len(token)) :
                    SubSeq(line, i + 1, i + Len(token)) = token}
    IN  IF hits = {} THEN -1 ELSE CHOOSE i \in hits : \A j \in hits : i <= j

\* iterating a file opened "rb": the content cut after every "\n"
RECURSIVE FileLines(_)
FileLines(content) ==
    IF content = <<>> THEN <<>>
    ELSE LET k == Find(content, <<"\n">>)
         IN  IF k = -1 THEN <<content>>
             ELSE <<PySlice(content, 0, k + 1)>> \o FileLines(From(content, k + 1))

\* bytes.splitlines(keepends=True): lines end at "\n", "\r" or "\r\n"
RECURSIVE SplitLines(_)
SplitLines(data) ==
    IF data = <<>> THEN <<>>
    ELSE LET ends == {i \in 1..Len(data) : data[i] \in {"\n", "\r"}}
             e == CHOOSE i \in ends : \A j \in ends : i <= j
             stop == IF data[e] = "\r" /\ e < Len(data) /\ data[e + 1] = "\n"
                     THEN e + 1 ELSE e
         IN  IF ends = {} THEN <<data>>
             ELSE <<SubSeq(data, 1, stop)>> \o SplitLines(From(data, stop))

\* os.path.splitext(path)[1]: from the last dot of the last path component,
\* unless only dots precede it in that component
SplitExt(path) ==
    LET seps == {i \in 1..Len(path) : path[i] = "/"}
        sep == IF seps = {} THEN 0 ELSE CHOOSE i \in seps : \A j \in seps : j <= i
        dots == {i \in 1..Len(path) : path[i] = "."}
        dot == IF dots = {} THEN 0 ELSE CHOOSE i \in dots : \A j \in dots : j <= i
    IN  IF dot > sep /\ \E i \in (sep + 1)..(dot - 1) : path[i] # "."
        THEN SubSeq(path, dot, Len(path))
        ELSE <<>>

(***************************************************************************)
(* TestcaseLine and TestcaseChar.                                          *)
(***************************************************************************)
\* "added = len(self.parts) - orig; self.reducible.extend([True] * added)"
\* once self.parts has been extended to parts
ExtendReducible(self, parts) ==
    [self EXCEPT !.parts = parts,
                 !.reducible = self.reducible
                               \o Repeat(TRUE, Len(parts) - Len(self.parts))]

\* TestcaseLine.split_parts
SplitPartsLine(self, data) ==
    ExtendReducible(self, self.parts \o SplitLines(data))

\* TestcaseChar.split_parts
SplitPartsChar(self, data) ==
    ExtendReducible(self,
        self.parts \o [i \in 1..Len(data) |-> PySlice(data, i - 1, i)])

(***************************************************************************)
(* TestcaseJsStr.  The scanner state st is [parts, chars, instr, last]:    *)
(* self.parts, chars, instr (None or Some(quote)) and last of the code.    *)
(***************************************************************************)
HexDigits ==
    {"0", "1", "2", "3", "4", "5", "6", "7", "8", "9",
     "A", "B", "C", "D", "E", "F", "a", "b", "c", "d", "e", "f"}

\* the number of leading hex digits of rest[lo:]
RECURSIVE HexRun(_, _)
HexRun(rest, lo) ==
    IF lo < Len(rest) /\ rest[lo + 1] \in HexDigits THEN 1 + HexRun(rest, lo + 1) ELSE 0

\* re.match(br"(\\u[0-9A-Fa-f]{4}|\\x[0-9A-Fa-f]{2}|\\u\{[0-9A-Fa-f]+\}|\\.|.)",
\*          rest, re.DOTALL): match.end(0), or 0 when there is no match.
\* The alternatives are tried in order; [0-9A-Fa-f]+ is greedy and "}" is
\* no hex digit, so giving digits back never helps.
MatchInStr(rest) ==
    LET n == Len(rest)
        bs == n >= 1 /\ rest[1] = "\\"
    IN  IF bs /\ n >= 6 /\ rest[2] = "u" /\ HexRun(rest, 2) >= 4 THEN 6
        ELSE IF bs /\ n >= 4 /\ rest[2] = "x" /\ HexRun(rest, 2) >= 2 THEN 4
        ELSE IF bs /\ n >= 5 /\ rest[2] = "u" /\ rest[3] = "{"
                /\ HexRun(rest, 3) >= 1
                /\ 3 + HexRun(rest, 3) < n
                /\ rest[3 + HexRun(rest, 3) + 1] = "}"
             THEN 3 + HexRun(rest, 3) + 1
        ELSE IF bs /\ n >= 2 THEN 2
        ELSE IF n >= 1 THEN 1
        ELSE 0

\* re.search(br"""['"]""", rest): match.end(0), or 0 when there is no match
SearchQuote(rest) ==
    LET hits == {i \in 1..Len(rest) : rest[i] \in {"'", "\""}}
    IN  IF hits = {} THEN 0 ELSE CHOOSE i \in hits : \A j \in hits : i <= j

\* match.end(0) of the match the inner loop asks for in state st, 0 for none
JsMatch(st, rest) ==
    IF st.instr # None THEN MatchInStr(rest) ELSE SearchQuote(rest)

\* the inner loop faulted to count the closing quote among the in-string
\* characters (no chars.pop())
JsAppendNoPop(st, group) ==
    [parts |-> Append(st.parts, group),
     chars |-> IF st.instr # None THEN Append(st.chars, Len(st.parts))
               ELSE st.chars,
     instr |-> IF st.instr = None THEN <<group[Len(group)]>>
               ELSE IF group = st.instr THEN None
               ELSE st.instr,
     last |-> st.last + Len(group)]

\* one pass of the inner loop after a match whose group(0) is group:
\* chars.append / instr = None / chars.pop in a string, instr = the quote
\* outside, then self.parts.append and last += match.end(0)
JsAppend(st, group) ==
    [parts |-> Append(st.parts, group),
     chars |-> IF st.instr # None /\ group # st.instr
               THEN Append(st.chars, Len(st.parts))
               ELSE st.chars,
     instr |-> IF st.instr = None THEN <<group[Len(group)]>>
               ELSE IF group = st.instr THEN None
               ELSE st.instr,
     last |-> st.last + Len(group)]

RECURSIVE JsInner(_, _)
\* the inner loop, given the match length m at data[last:]
JsInnerAt(st, data, m) ==
    IF m = 0 THEN st
    ELSE JsInner(JsAppend(st, PySlice(data, st.last, st.last + m)), data)

\* the inner "while True" of split_parts, run from state st to its break
JsInner(st, data) == JsInnerAt(st, data, JsMatch(st, From(data, st.last)))

\* the backward search faulted to look for a part that is the open quote
\* (parts[idx] == instr) instead of one that ends with it
RewindPointsExact(st, parts) ==
    {i \in 0..(Len(parts) - 1) :
        /\ parts[i + 1] = st.instr
        /\ \A k \in 1..Len(st.chars) : st.chars[k] # i}

\* the indices the backward search of the rewind may stop at: parts that
\* end with the open quote and are no in-string character
RewindPoints(st, parts) ==
    {i \in 0..(Len(parts) - 1) :
        /\ parts[i + 1] # <<>>
        /\ <<parts[i + 1][Len(parts[i + 1])]>> = st.instr
        /\ \A k \in 1..Len(st.chars) : st.chars[k] # i}

\* the rewind faulted to leave what follows the unmatched quote as one
\* part, without scanning it again
JsRewindNoRescan(st, parts, points) ==
    IF points = {}
    THEN [parts |-> parts, chars |-> st.chars, raised |-> TRUE]
    ELSE [parts |->
            PySlice(parts, 0, (CHOOSE i \in points : \A j \in points : j <= i) + 1)
            \o <<Join(From(parts,
                           (CHOOSE i \in points : \A j \in points : j <= i) + 1))>>,
          chars |->
            SelectSeq(st.chars,
                      LAMBDA c : c < (CHOOSE i \in points : \A j \in points : j <= i)),
          raised |-> FALSE]

RECURSIVE JsScan(_, _, _)
\* the rewind: raise when no part qualifies, else scan again behind the
\* last one that does.  raised = TRUE is the RuntimeError.
JsRewind(st, parts, points) ==
    IF points = {}
    THEN [parts |-> parts, chars |-> st.chars, raised |-> TRUE]
    ELSE JsScan(
           PySlice(parts, 0, (CHOOSE i \in points : \A j \in points : j <= i) + 1),
           SelectSeq(st.chars,
                     LAMBDA c : c < (CHOOSE i \in points : \A j \in points : j <= i)),
           Join(From(parts, (CHOOSE i \in points : \A j \in points : j <= i) + 1)))

\* after the inner loop and "if last != len(data): self.parts.append(...)"
JsAfterInner(st, parts) ==
    IF st.instr = None
    THEN [parts |-> parts, chars |-> st.chars, raised |-> FALSE]
    ELSE JsRewind(st, parts, RewindPoints(st, parts))

\* one pass of the outer loop, given the state the inner loop broke in
JsOuter(st, data) ==
    JsAfterInner(st, IF st.last # Len(data)
                     THEN Append(st.parts, From(data, st.last))
                     ELSE st.parts)

\* the outer "while True" of split_parts: [parts, chars, raised]
JsScan(parts, chars, data) ==
    JsOuter(JsInner([parts |-> parts, chars |-> chars, instr |-> None, last |-> 0],
                    data),
            data)

\* "merge everything before first char into self.before"; sc = [self, chars]
JsHeader(sc) ==
    IF sc.chars # <<>> /\ sc.chars[1] # 0
    THEN [self |-> [sc.self EXCEPT
                      !.before = sc.self.before
                                 \o Join(PySlice(sc.self.parts, 0, sc.chars[1])),
                      !.parts = From(sc.self.parts, sc.chars[1])],
          chars |-> [k \in 1..Len(sc.chars) |-> sc.chars[k] - sc.chars[1]]]
    ELSE sc

\* "merge everything after last char into self.after"
JsFooter(sc) ==
    IF sc.chars # <<>> /\ sc.chars[Len(sc.chars)] + 1 < Len(sc.self.parts)
    THEN [sc EXCEPT
            !.self.parts = PySlice(sc.self.parts, 0, sc.chars[Len(sc.chars)] + 1),
            !.self.after = Join(From(sc.self.parts, sc.chars[Len(sc.chars)] + 1))
                           \o sc.self.after]
    ELSE sc

\* "for i in range(len(chars) - 1)": merge the parts lying between two
\* in-string characters that are more than 2 apart
RECURSIVE JsMerge(_, _)
JsMerge(sc, i) ==
    IF i >= Len(sc.chars) - 1 THEN sc
    ELSE IF sc.chars[i + 2] - sc.chars[i + 1] > 2
    THEN JsMerge(
           [self |-> [sc.self EXCEPT
                        !.parts = PySlice(sc.self.parts, 0, sc.chars[i + 1] + 1)
                                  \o <<Join(PySlice(sc.self.parts, sc.chars[i + 1] + 1,
                                                    sc.chars[i + 2]))>>
                                  \o From(sc.self.parts, sc.chars[i + 2])],
            chars |-> [k \in 1..Len(sc.chars) |->
                         IF k >= i + 2
                         THEN sc.chars[k] - (sc.chars[i + 2] - sc.chars[i + 1] - 2)
                         ELSE sc.chars[k]]],
           i + 1)
    ELSE JsMerge(sc, i + 1)

\* "self.reducible = [False] * len(self.parts)", then True at every char
JsMark(sc) ==
    [sc.self EXCEPT
       !.reducible = [i \in 1..Len(sc.self.parts) |->
                        \E k \in 1..Len(sc.chars) : sc.chars[k] = i - 1]]

\* split_parts after its scan; self.parts is what the scan left
JsFinish(self, scan) ==
    IF scan.raised
    THEN [self |-> [self EXCEPT !.parts = scan.parts], raised |-> TRUE]
    ELSE [self |-> JsMark(JsMerge(JsFooter(JsHeader(
                      [self |-> [self EXCEPT !.parts = scan.parts],
                       chars |-> scan.chars])), 0)),
          raised |-> FALSE]

\* TestcaseJsStr.split_parts: [self, raised]
SplitPartsJsStr(self, data) == JsFinish(self, JsScan(self.parts, <<>>, data))

(***************************************************************************)
(* TestcaseSymbol.  The cutter compiled by set_cut_chars is                *)
(*     [before]? [^before after]* (?: [after] | $ | (?=[before]) )         *)
(* for cut sets whose bytes stand for themselves inside a character class  *)
(* (true of the defaults).  Positions are 0-based offsets into data.       *)
(***************************************************************************)
\* TestcaseSymbol.set_cut_chars
SetCutChars(self, before, after) ==
    [self EXCEPT !.cut_before = before, !.cut_after = after]

\* "$" without re.MULTILINE: at the end, or before a final "\n"
AtDollar(data, q) ==
    q = Len(data) \/ (q = Len(data) - 1 /\ data[q + 1] = "\n")

\* the ends the closing group (?:[after]|$|(?=[before])) can give at q, in
\* the order the alternatives are tried
AltEnds(self, data, q) ==
    (IF q < Len(data) /\ data[q + 1] \in self.cut_after THEN <<q + 1>> ELSE <<>>)
    \o (IF AtDollar(data, q) THEN <<q>> ELSE <<>>)
    \o (IF q < Len(data) /\ data[q + 1] \in self.cut_before THEN <<q>> ELSE <<>>)

\* the length of the longest run of [^before after] starting at q
RECURSIVE RunLen(_, _, _)
RunLen(self, data, q) ==
    IF q < Len(data) /\ data[q + 1] \notin (self.cut_before \cup self.cut_after)
    THEN 1 + RunLen(self, data, q + 1)
    ELSE 0

\* the greedy star, longest run first: the ends reachable with a run of k,
\* k - 1, ..., 0 bytes from q0
RECURSIVE RunEnds(_, _, _, _)
RunEnds(self, data, q0, k) ==
    IF k < 0 THEN <<>>
    ELSE AltEnds(self, data, q0 + k) \o RunEnds(self, data, q0, k - 1)

\* the cutter faulted to have no optional leading cut-before byte
MatchEndsNoBefore(self, data, pos) ==
    RunEnds(self, data, pos, RunLen(self, data, pos))

\* every end of a match starting at pos, in the order the backtracking
\* matcher finds them: the optional cut-before byte taken first
MatchEnds(self, data, pos) ==
    (IF pos < Len(data) /\ data[pos + 1] \in self.cut_before
     THEN RunEnds(self, data, pos + 1, RunLen(self, data, pos + 1))
     ELSE <<>>)
    \o RunEnds(self, data, pos, RunLen(self, data, pos))

\* the first of ends the matcher may return: must_advance refuses an empty
\* match where the previous match was empty too; -1 when there is none
FirstEnd(ends, pos, must_advance) ==
    IF \E k \in 1..Len(ends) : ~must_advance \/ ends[k] > pos
    THEN ends[CHOOSE k \in 1..Len(ends) :
                /\ ~must_advance \/ ends[k] > pos
                /\ \A j \in 1..(k - 1) : must_advance /\ ends[j] <= pos]
    ELSE -1

\* the match at pos: its end, or -1
MatchAt(self, data, pos, must_advance) ==
    FirstEnd(MatchEnds(self, data, pos), pos, must_advance)

RECURSIVE FindIter(_, _, _, _)
\* finditer at pos, given the end e of the match there (-1: none, so the
\* search moves on by one byte)
FindFrom(self, data, pos, e) ==
    IF e = -1 THEN FindIter(self, data, pos + 1, FALSE)
    ELSE <<PySlice(data, pos, e)>> \o FindIter(self, data, e, e = pos)

\* self._cutter.finditer(data): the matched groups group(0), in order
FindIter(self, data, pos, must_advance) ==
    IF pos > Len(data) THEN <<>>
    ELSE FindFrom(self, data, pos, MatchAt(self, data, pos, must_advance))

\* the body of the for loop of split_parts, over the matches left
RECURSIVE SymAppend(_, _)
SymAppend(self, groups) ==
    IF groups = <<>> THEN self
    ELSE IF Head(groups) # <<>>
    THEN SymAppend([self EXCEPT !.parts = Append(self.parts, Head(groups)),
                                !.reducible = Append(self.reducible, TRUE)],
                   Tail(groups))
    ELSE SymAppend(self, Tail(groups))

\* TestcaseSymbol.split_parts
SplitPartsSymbol(self, data) == SymAppend(self, FindIter(self, data, 0, FALSE))

(***************************************************************************)
(* split_parts by class, load and dump.                                    *)
(***************************************************************************)
\* self.split_parts(data): [self, raised]
SplitParts(self, data) ==
    CASE self.cls = "TestcaseLine" ->
           [self |-> SplitPartsLine(self, data), raised |-> FALSE]
      [] self.cls = "TestcaseChar" ->
           [self |-> SplitPartsChar(self, data), raised |-> FALSE]
      [] self.cls = "TestcaseSymbol" ->
           [self |-> SplitPartsSymbol(self, data), raised |-> FALSE]
      [] self.cls = "TestcaseJsStr" -> SplitPartsJsStr(self, data)

\* the first loop of load faulted to test a line for DDEND before DDBEGIN
RECURSIVE ScanBeginEndFirst(_, _)
ScanBeginEndFirst(lines, k) ==
    IF k > Len(lines) THEN [kind |-> "else", at |-> k]
    ELSE IF Find(lines[k], DDEND) # -1 THEN [kind |-> "raise", at |-> k]
    ELSE IF Find(lines[k], DDBEGIN) # -1 THEN [kind |-> "begin", at |-> k]
    ELSE ScanBeginEndFirst(lines, k + 1)

\* the first "for line in fileobj" of load: where it stops and why
RECURSIVE ScanBegin(_, _)
ScanBegin(lines, k) ==
    IF k > Len(lines) THEN [kind |-> "else", at |-> k]
    ELSE IF Find(lines[k], DDBEGIN) # -1 THEN [kind |-> "begin", at |-> k]
    ELSE IF Find(lines[k], DDEND) # -1 THEN [kind |-> "raise", at |-> k]
    ELSE ScanBegin(lines, k + 1)

\* the second "for line in fileobj" of load
RECURSIVE ScanEnd(_, _)
ScanEnd(lines, k) ==
    IF k > Len(lines) THEN [kind |-> "else", at |-> k]
    ELSE IF Find(lines[k], DDEND) # -1 THEN [kind |-> "end", at |-> k]
    ELSE ScanEnd(lines, k + 1)

\* what load leaves: the instance, err ("ok" or the exception raised), the
\* data it handed to split_parts and the instance as it was at that call
LoadResult(split, data, given) ==
    [self |-> split.self,
     err |-> IF split.raised THEN "error while backtracking" ELSE "ok",
     data |-> data,
     given |-> given]

\* self.split_parts(b"".join(...)), the last statement of load
LoadSplit(self, data) == LoadResult(SplitParts(self, data), data, self)

\* the second loop of load faulted to count the DDEND line as payload
LoadUntilLate(self, lines, b, e) ==
    IF e.kind = "else"
    THEN [self |-> self, err |-> "DDBEGIN but no DDEND", data |-> <<>>,
          given |-> self]
    ELSE LoadSplit([self EXCEPT !.after = Join(SubSeq(lines, e.at + 1, Len(lines)))],
                   Join(SubSeq(lines, b + 1, e.at)))

\* load from the line after the DDBEGIN line (line b of lines), e being
\* where the second loop stopped
LoadUntil(self, lines, b, e) ==
    IF e.kind = "else"
    THEN [self |-> self, err |-> "DDBEGIN but no DDEND", data |-> <<>>,
          given |-> self]
    ELSE LoadSplit([self EXCEPT !.after = Join(SubSeq(lines, e.at, Len(lines)))],
                   Join(SubSeq(lines, b + 1, e.at - 1)))

\* load after "self.extension = ...", b being where the first loop stopped
LoadFrom(self, lines, b) ==
    IF b.kind = "raise"
    THEN [self |-> self, err |-> "DDEND without DDBEGIN", data |-> <<>>,
          given |-> self]
    ELSE IF b.kind = "else"
    THEN LoadSplit(self, Join(lines))
    ELSE LoadUntil([self EXCEPT !.before = Join(SubSeq(lines, 1, b.at))],
                   lines, b.at, ScanEnd(lines, b.at + 1))

\* load over the lines of the file, self being reset and named
LoadLines(self, lines) == LoadFrom(self, lines, ScanBegin(lines, 1))

\* Testcase.load on a file holding content: self.__init__() is the
\* __init__ of self's class
BaseLoad(self, path, content) ==
    LoadLines([NewTestcase(self.cls) EXCEPT
                 !.filename = Some(path),
                 !.extension = Some(SplitExt(path))],
              FileLines(content))

\* TestcaseChar.load faulted to leave the last payload byte a part
CharLoadKeep(r) == r

\* TestcaseChar.load faulted to drop the last part without prepending
\* anything to after
CharLoadDrop(r) ==
    IF r.err = "ok" /\ (r.self.before # <<>> \/ r.self.after # <<>>)
       /\ r.self.parts # <<>>
    THEN [r EXCEPT !.self.parts = PySlice(r.self.parts, 0, Len(r.self.parts) - 1),
                   !.self.reducible = PySlice(r.self.reducible, 0,
                                              Len(r.self.reducible) - 1)]
    ELSE r

\* TestcaseChar.load after super().load(path) has returned r
CharLoad(r) ==
    IF r.err = "ok" /\ (r.self.before # <<>> \/ r.self.after # <<>>)
       /\ r.self.parts # <<>>
    THEN [r EXCEPT !.self.parts = PySlice(r.self.parts, 0, Len(r.self.parts) - 1),
                   !.self.reducible = PySlice(r.self.reducible, 0,
                                              Len(r.self.reducible) - 1),
                   !.self.after = <<"\n">> \o r.self.after]
    ELSE r

\* the load of r.self's class, super().load(path) having returned r
ClassLoad(r) == IF r.self.cls = "TestcaseChar" THEN CharLoad(r) ELSE r

\* self.load(path): [self, err, data, given]
Load(self, path, content) == ClassLoad(BaseLoad(self, path, content))

\* what dump writes: before, then every part, then after
Dumped(self) == self.before \o Join(self.parts) \o self.after

(***************************************************************************)
(* The files and paths the specifications draw from.                       *)
(***************************************************************************)
SrcPath == <<"a", ".", "t", "x", "t">>

OutPath == <<"b">>

Paths == {SrcPath, OutPath}

\* what a line of a generated file holds before its "\n"
Bodies ==
    {<<>>, <<"'">>, <<"'", "a", "'">>, <<"}", ";">>, <<"\r", "a">>,
     DDBEGIN, DDEND, DDBEGIN \o DDEND, DDEND \o DDBEGIN}

\* the file made of the lines bodies, the last one ending in "\n" iff term
FileOf(bodies, term) ==
    Join([i \in 1..Len(bodies) |->
            IF i < Len(bodies) \/ term THEN bodies[i] \o <<"\n">> ELSE bodies[i]])

\* every file of at most n lines over Bodies
Files(n) ==
    {FileOf(bodies, term) :
        bodies \in UNION {[1..k -> Bodies] : k \in 0..n}, term \in BOOLEAN}

\* the files SpecLife loads: two quoted strings on two lines; a sentinel
\* region around the two payload lines "a" and "};"; one unterminated line
LifeFiles ==
    {<<"'", "a", "'", "\n", "'", "a", "'">>,
     DDBEGIN \o <<"\n", "a", "\n", "}", ";", "\n">> \o DDEND \o <<"\n">>,
     <<"a">>}

SymAlphabet == {"a", "}", ":", ";", "{", "\n"}

\* every payload of at most n bytes over SymAlphabet
SymPayloads(n) == UNION {[1..k -> SymAlphabet] : k \in 0..n}

\* the pieces the payloads of SpecJs are made of: the two quotes, a
\* backslash, a plain byte, what follows the backslash of an escape
\* (complete or cut short), and a closed string of each quote
JsPieces ==
    {<<"'">>, <<"\"">>, <<"\\">>, <<"a">>,
     <<"u", "0", "0", "4", "1">>, <<"x", "4", "1">>, <<"x", "4">>,
     <<"u", "{", "1", "}">>, <<"'", "a", "'">>, <<"\"", "a", "\"">>}

\* every payload of at most n pieces
JsPayloads(n) == {Join(pieces) : pieces \in UNION {[1..k -> JsPieces] : k \in 0..n}}

\* the cut sets SpecCut hands to set_cut_chars as before: one byte, and
\* the default that handle_args passes when --cut-before is not given
CutBefores == {{"a"}, DEFAULT_CUT_BEFORE}

\* the cut sets SpecCut hands to set_cut_chars as after: one byte, and the
\* default that handle_args passes when --cut-after is not given
CutAfters == {{";"}, DEFAULT_CUT_AFTER}

\* the data SpecSplit hands to split_parts: plain text, a closed string,
\* a quote nothing closes, two statements on two lines, a carriage return
SplitData ==
    {<<"a">>, <<"'", "a", "'">>, <<"a", "'">>, <<"a", ";", "\n", "}", "a">>,
     <<"a", "\r", "a">>}

\* the bounds a strategy may hand to _slice_xlat and rmslice
BoundArgs(n) == {None} \cup {Some(k) : k \in (0 - n)..n}

NoCall ==
    [op |-> "none", who |-> "tc", a |-> None, b |-> None,
     pre |-> NewTestcase("TestcaseLine"), other |-> None,
     xl |-> [ok |-> TRUE, start |-> 0, stop |-> 0],
     data |-> <<>>, given |-> NewTestcase("TestcaseLine"),
     path |-> <<>>, content |-> <<>>, raised |-> FALSE]

(***************************************************************************)
(* States after construction.                                              *)
(***************************************************************************)
\* a file of files at SrcPath, a newly constructed instance of one of classes
InitWith(files, classes) ==
    /\ \E content \in files :
         fs = [p \in Paths |-> IF p = SrcPath THEN Some(content) ELSE None]
    /\ \E cls \in classes : tc = NewTestcase(cls)
    /\ cp = None
    /\ err = "new"
    /\ orig = None
    /\ last = NoCall
    /\ nops = 0

(***************************************************************************)
(* The calls.                                                              *)
(***************************************************************************)
\* the effect of tc.load(path) having ended as r
Loaded(path, r) ==
    /\ tc' = r.self
    /\ err' = r.err
    /\ orig' = IF r.err = "ok" THEN fs[path] ELSE None
    /\ last' = [NoCall EXCEPT !.op = "load", !.pre = tc, !.other = cp,
                              !.data = r.data, !.given = r.given, !.path = path,
                              !.content = fs[path][1]]

\* tc.load(path), for a path that exists
LoadStep(limit) ==
    /\ nops < limit
    /\ \E path \in Paths :
         /\ fs[path] # None
         /\ \E r \in {Load(tc, path, fs[path][1])} : Loaded(path, r)
    /\ nops' = nops + 1
    /\ UNCHANGED <<fs, cp>>

\* tc.dump() or tc.dump(path)
DumpStep(limit) ==
    /\ nops < limit
    /\ err = "ok"
    /\ \E arg \in {None} \cup {Some(p) : p \in Paths} :
         \E path \in {IF arg = None THEN tc.filename[1] ELSE arg[1]} :
           \E written \in {Dumped(tc)} :
             /\ fs' = [fs EXCEPT ![path] = Some(written)]
             /\ last' = [NoCall EXCEPT !.op = "dump", !.pre = tc, !.other = cp,
                                       !.path = path, !.content = written]
    /\ nops' = nops + 1
    /\ UNCHANGED <<tc, cp, err, orig>>

\* the effect of self.rmslice(a, b) when its _slice_xlat call returned x;
\* rmslice binds new lists to self.parts and self.reducible and touches
\* nothing else
Rmsliced(who, self, a, b, x) ==
    /\ last' = [NoCall EXCEPT !.op = "rmslice", !.who = who, !.a = a, !.b = b,
                              !.pre = self,
                              !.other = IF who = "tc" THEN cp ELSE Some(tc),
                              !.xl = x]
    /\ \/ /\ who = "tc"
          /\ tc' = RmPhysical(self, x)
          /\ orig' = None
          /\ UNCHANGED cp
       \/ /\ who = "cp"
          /\ cp' = Some(RmPhysical(self, x))
          /\ UNCHANGED <<tc, orig>>

\* tc.rmslice(a, b) or cp.rmslice(a, b)
RmsliceStep(limit, maxbound) ==
    /\ nops < limit
    /\ err = "ok"
    /\ \E a \in BoundArgs(maxbound), b \in BoundArgs(maxbound) :
         \E who \in {"tc"} \cup (IF cp = None THEN {} ELSE {"cp"}) :
           \E self \in {IF who = "tc" THEN tc ELSE cp[1]} :
             \E x \in {SliceXlat(self, a, b)} : Rmsliced(who, self, a, b, x)
    /\ nops' = nops + 1
    /\ UNCHANGED <<fs, err>>

\* cp = tc.copy()
CopyStep(limit) ==
    /\ nops < limit
    /\ err = "ok"
    /\ cp' = Some(CopyOf(tc))
    /\ last' = [NoCall EXCEPT !.op = "copy", !.pre = tc, !.other = cp]
    /\ nops' = nops + 1
    /\ UNCHANGED <<fs, tc, err, orig>>

\* tc._slice_xlat(a, b)
XlatStep(limit, maxbound) ==
    /\ nops < limit
    /\ err = "ok"
    /\ \E a \in BoundArgs(maxbound), b \in BoundArgs(maxbound) :
         last' = [NoCall EXCEPT !.op = "xlat", !.a = a, !.b = b, !.pre = tc,
                                !.other = cp, !.xl = SliceXlat(tc, a, b)]
    /\ nops' = nops + 1
    /\ UNCHANGED <<fs, tc, cp, err, orig>>

\* the effect of tc.split_parts(data) having ended as r
Splitted(data, r) ==
    /\ tc' = r.self
    /\ last' = [NoCall EXCEPT !.op = "split", !.pre = tc, !.other = cp,
                              !.data = data, !.given = tc, !.raised = r.raised]

\* tc.split_parts(data), called directly
SplitStep(limit) ==
    /\ nops < limit
    /\ \E data \in SplitData :
         \E r \in {SplitParts(tc, data)} : Splitted(data, r)
    /\ nops' = nops + 1
    /\ orig' = None
    /\ UNCHANGED <<fs, cp, err>>

\* tc.set_cut_chars(before, after), also what tc.handle_args(args) does
\* with args.cut_before and args.cut_after; only TestcaseSymbol has it
SetCutStep(limit) ==
    /\ nops < limit
    /\ tc.cls = "TestcaseSymbol"
    /\ \E before \in CutBefores, after \in CutAfters :
         /\ tc' = SetCutChars(tc, before, after)
         /\ last' = [NoCall EXCEPT !.op = "set_cut_chars", !.pre = tc,
                                   !.other = cp]
    /\ nops' = nops + 1
    /\ UNCHANGED <<fs, cp, err, orig>>

(***************************************************************************)
(* Spec: load and dump, over files of up to MaxLines lines.                *)
(***************************************************************************)
Init == InitWith(Files(MaxLines), Classes)

Next == LoadStep(MaxLoadOps) \/ DumpStep(MaxLoadOps)

Spec == Init /\ [][Next]_vars

(***************************************************************************)
(* SpecLife: load, then what a reduction strategy does with the testcase.  *)
(***************************************************************************)
InitLife == InitWith(LifeFiles, Classes)

NextLife ==
    \/ LoadStep(MaxLifeOps)
    \/ RmsliceStep(MaxLifeOps, MaxLifeBound)
    \/ CopyStep(MaxLifeOps)
    \/ DumpStep(MaxLifeOps)

SpecLife == InitLife /\ [][NextLife]_vars

(***************************************************************************)
(* SpecXlat: index translation and slice removal on a testcase whose       *)
(* reducible mask was assigned, as tests/test_testcases.py does:           *)
(* TestcaseChar().split_parts(b"0123...") and then test.reducible = mask.  *)
(***************************************************************************)
Digits == <<"0", "1", "2", "3", "4", "5", "6", "7", "8", "9">>

InitXlat ==
    /\ \E n \in 0..MaxParts : \E mask \in [1..n -> BOOLEAN] :
         tc = [SplitPartsChar(NewTestcase("TestcaseChar"), SubSeq(Digits, 1, n))
                 EXCEPT !.reducible = mask]
    /\ fs = [p \in Paths |-> None]
    /\ cp = None
    /\ err = "ok"
    /\ orig = None
    /\ last = NoCall
    /\ nops = 0

NextXlat ==
    \/ XlatStep(MaxXlatOps, MaxBound)
    \/ RmsliceStep(MaxXlatOps, MaxBound)

SpecXlat == InitXlat /\ [][NextXlat]_vars

(***************************************************************************)
(* SpecSymbol: TestcaseSymbol loading files without sentinels, so that the *)
(* whole file is the payload split.                                        *)
(***************************************************************************)
InitSymbol == InitWith(SymPayloads(MaxPayload), {"TestcaseSymbol"})

NextSymbol == LoadStep(MaxLoadOps)

SpecSymbol == InitSymbol /\ [][NextSymbol]_vars

(***************************************************************************)
(* SpecJs: TestcaseJsStr loading files without sentinels and without line  *)
(* breaks, so that the whole file is the payload split.                    *)
(***************************************************************************)
InitJs == InitWith(JsPayloads(MaxJs), {"TestcaseJsStr"})

NextJs == LoadStep(MaxJsOps)

SpecJs == InitJs /\ [][NextJs]_vars

(***************************************************************************)
(* SpecSplit: split_parts called directly, and more than once, on an       *)
(* instance of each class that was never loaded.                           *)
(***************************************************************************)
InitSplit ==
    /\ \E cls \in Classes : tc = NewTestcase(cls)
    /\ fs = [p \in Paths |-> None]
    /\ cp = None
    /\ err = "new"
    /\ orig = None
    /\ last = NoCall
    /\ nops = 0

NextSplit == SplitStep(MaxSplitOps)

SpecSplit == InitSplit /\ [][NextSplit]_vars

(***************************************************************************)
(* SpecCut: TestcaseSymbol configured through set_cut_chars / handle_args  *)
(* and then loading files without sentinels.                               *)
(***************************************************************************)
InitCut == InitWith(SymPayloads(MaxCutPayload), {"TestcaseSymbol"})

NextCut == SetCutStep(MaxCutOps) \/ LoadStep(MaxCutOps)

SpecCut == InitCut /\ [][NextCut]_vars

(***************************************************************************)
(* Properties.                                                             *)
(***************************************************************************)
\* every instance there is: tc, and the copy when one was made
Instances == {tc} \cup {cp[i] : i \in 1..Len(cp)}

\* C1: after a successful load, and after any rmslice and copy calls that
\* follow it, with any bounds, every instance of every splitter variant has
\* as many reducible flags as it has parts.
C1_LengthsAgree ==
    err = "ok" => \A t \in Instances : Len(t.parts) = Len(t.reducible)

\* a JS-string testcase, copied, has lost parts to an rmslice whose window
\* held fixed parts that were kept
C1_Witness ==
    /\ err = "ok"
    /\ tc.cls = "TestcaseJsStr"
    /\ cp # None
    /\ last.op = "rmslice"
    /\ last.who = "tc"
    /\ last.xl.ok
    /\ Len(tc.parts) < Len(last.pre.parts)
    /\ Keep(last.pre, last.xl.start, last.xl.stop) # <<>>

\* C2: while no rmslice has followed a successful load, before, the parts
\* in order and after concatenate to exactly the bytes the load read, for
\* every splitter variant and every file; so the dump of a loaded testcase
\* leaves the file written holding those same bytes.
C2_RoundTrip ==
    /\ orig # None => tc.before \o Join(tc.parts) \o tc.after = orig[1]
    /\ (orig # None /\ last.op = "dump") => fs[last.path] = orig

\* a byte-split testcase with a sentinel region and payload has been dumped
\* to a path other than the one it was loaded from
C2_Witness ==
    /\ orig # None
    /\ last.op = "dump"
    /\ last.path = OutPath
    /\ tc.filename = Some(SrcPath)
    /\ tc.cls = "TestcaseChar"
    /\ tc.before # <<>>
    /\ tc.parts # <<>>
    /\ fs[OutPath] = fs[SrcPath]

\* token occurs somewhere in line
Contains(line, token) ==
    \E i \in 1..(Len(line) - Len(token) + 1) :
       SubSeq(line, i, i + Len(token) - 1) = token

\* the least element of a non-empty set of integers
Least(S) == CHOOSE i \in S : \A j \in S : i <= j

\* the numbers of the lines that hold a sentinel token
TokenLines(lines) ==
    {i \in 1..Len(lines) :
        Contains(lines[i], DDBEGIN) \/ Contains(lines[i], DDEND)}

\* the numbers of the lines after line b that hold DDEND
EndLinesAfter(lines, b) ==
    {j \in (b + 1)..Len(lines) : Contains(lines[j], DDEND)}

\* the region the loader found, when the first DDBEGIN line is line b and
\* the first DDEND line after it is line e: what split_parts was handed
\* (last.data) and the before and after it was called with (last.given)
RegionIs(lines, b, e) ==
    /\ last.given.before = Join(SubSeq(lines, 1, b))
    /\ last.given.after = Join(SubSeq(lines, e, Len(lines)))
    /\ last.data = Join(SubSeq(lines, b + 1, e - 1))

\* the loader's part of C3 for a file of these lines, first being the set
\* holding the number of the first line with a token, if there is one
RegionOf(lines, first) ==
    IF first = {}
    THEN /\ last.data = last.content
         /\ last.given.before = <<>>
         /\ last.given.after = <<>>
    ELSE \A b \in first :
            /\ Contains(lines[b], DDBEGIN)
            /\ \A ends \in {EndLinesAfter(lines, b)} :
                  ends # {} /\ RegionIs(lines, b, Least(ends))

\* the first element of a set of integers: {} or {its least element}
FirstOf(S) == {i \in S : \A j \in S : i <= j}

\* the loader's part of C3
LoaderRegion ==
    \A lines \in {FileLines(last.content)} :
       \A first \in {FirstOf(TokenLines(lines))} : RegionOf(lines, first)

\* the line and symbol splitters leave before and after as the loader set
\* them
LoaderFieldsKept ==
    tc.cls \in {"TestcaseLine", "TestcaseSymbol"}
        => tc.before = last.given.before /\ tc.after = last.given.after

\* part holds no line terminator but at its end: "\n", "\r" or "\r\n"
OneTerminatedLine(part) ==
    /\ part # <<>>
    /\ \A k \in 1..(Len(part) - 1) :
          part[k] \in {"\n", "\r"}
              => k = Len(part) - 1 /\ part[k] = "\r" /\ part[k + 1] = "\n"

\* the parts are data cut after every "\n", every "\r" not followed by
\* "\n", and every "\r\n"
CutAtTerminators(parts, data) ==
    /\ Join(parts) = data
    /\ \A i \in 1..Len(parts) : OneTerminatedLine(parts[i])
    /\ \A i \in 1..(Len(parts) - 1) :
          /\ parts[i][Len(parts[i])] \in {"\n", "\r"}
          /\ ~(parts[i][Len(parts[i])] = "\r" /\ parts[i + 1][1] = "\n")

\* C3 (as corrected): on a successful load of a file with a sentinel
\* region, the loader sets before to the file from its start through the
\* first line containing DDBEGIN, after to the first later line containing
\* DDEND with all that follows it, and hands split_parts exactly the lines
\* strictly between the two; when no line holds a token it hands over the
\* whole file and leaves before and after empty.  The line splitter makes
\* one reducible part of each stretch of the payload that ends at "\n", at
\* "\r\n" or at a "\r" alone (terminator attached), or at the payload's end.
C3_LoaderRegion ==
    (last.op = "load" /\ err = "ok") =>
        /\ LoaderRegion
        /\ LoaderFieldsKept
        /\ tc.cls = "TestcaseLine" =>
              /\ CutAtTerminators(tc.parts, last.data)
              /\ tc.reducible = Repeat(TRUE, Len(tc.parts))

\* C3 as stated: the same, but with the line splitter each line of the
\* payload, as the loader read it, is one reducible part.
C3_PartPerPayloadLine ==
    (last.op = "load" /\ err = "ok") =>
        /\ LoaderRegion
        /\ LoaderFieldsKept
        /\ tc.cls = "TestcaseLine" =>
              /\ tc.parts = FileLines(last.data)
              /\ tc.reducible = Repeat(TRUE, Len(tc.parts))

\* the line splitter has loaded a file whose sentinel region holds the one
\* line "\ra\n"
C3_Witness ==
    /\ last.op = "load"
    /\ err = "ok"
    /\ tc.cls = "TestcaseLine"
    /\ tc.before = DDBEGIN \o <<"\n">>
    /\ tc.after = DDEND \o <<"\n">>
    /\ last.data = <<"\r", "a", "\n">>
    /\ tc.parts = <<<<"\r">>, <<"a", "\n">>>>

\* C4: load fails with "DDEND without DDBEGIN" exactly when the first line
\* holding either token holds DDEND and not DDBEGIN; it fails with "DDBEGIN
\* but no DDEND" exactly when the first line holding either token holds
\* DDBEGIN (with or without DDEND on that same line, in either order) and
\* no later line holds DDEND; in every other case it succeeds.
C4_ErrorClassification ==
    last.op = "load" =>
        \A lines \in {FileLines(last.content)} :
           \A first \in {FirstOf(TokenLines(lines))} :
              /\ err = "DDEND without DDBEGIN"
                    <=> \E b \in first : ~Contains(lines[b], DDBEGIN)
              /\ err = "DDBEGIN but no DDEND"
                    <=> \E b \in first : /\ Contains(lines[b], DDBEGIN)
                                         /\ EndLinesAfter(lines, b) = {}
              /\ err \in {"ok", "DDEND without DDBEGIN", "DDBEGIN but no DDEND"}

\* a file whose only line holds DDEND and then DDBEGIN was refused for its
\* missing DDEND line
C4_Witness ==
    /\ last.op = "load"
    /\ last.content = DDEND \o DDBEGIN \o <<"\n">>
    /\ err = "DDBEGIN but no DDEND"

\* the physical ranges _slice_xlat returns for the logical ranges [i, i+1),
\* i = 0..len_self-1
UnitRanges(self, len_self) ==
    [n \in 1..len_self |-> SliceXlat(self, Some(n - 1), Some(n))]

\* ranges are contiguous from 0 to nparts, and each holds exactly one
\* part flagged in reducible
Partition(ranges, nparts, reducible) ==
    /\ \A n \in 1..Len(ranges) :
          /\ ranges[n].ok
          /\ 0 <= ranges[n].start
          /\ ranges[n].start < ranges[n].stop
          /\ ranges[n].stop <= nparts
          /\ Cardinality({k \in (ranges[n].start + 1)..ranges[n].stop :
                             reducible[k]}) = 1
    /\ ranges[1].start = 0
    /\ ranges[Len(ranges)].stop = nparts
    /\ \A n \in 1..(Len(ranges) - 1) : ranges[n].stop = ranges[n + 1].start

\* C5: for any reducible mask with logical length L >= 1, the physical
\* ranges _slice_xlat(i, i+1) returns for i = 0..L-1 are contiguous, without
\* overlap or gap, cover [0, len(parts)), and hold one reducible part each.
C5_UnitRangesPartition ==
    \A len_self \in {LenSelf(tc)} :
       len_self >= 1 =>
          \A ranges \in {UnitRanges(tc, len_self)} :
             Partition(ranges, Len(tc.parts), tc.reducible)

\* _slice_xlat(1, 2) was called on three parts of which the first is fixed
\* and the other two reducible
C5_Witness ==
    /\ last.op = "xlat"
    /\ tc.reducible = <<FALSE, TRUE, TRUE>>
    /\ last.a = Some(1)
    /\ last.b = Some(2)
    /\ last.xl = [ok |-> TRUE, start |-> 2, stop |-> 3]

\* a bound clamped into [0, L] as C6 words it, absent being what an absent
\* bound stands for
ClampedInto(bound, absent, L) ==
    IF bound = None THEN absent
    ELSE IF bound[1] < 0 THEN Max(L + bound[1], 0)
    ELSE Min(bound[1], L)

\* C6: _slice_xlat clamps each bound into [0, L] before translating (an
\* absent start is 0, an absent stop is L, a negative bound b is
\* max(L + b, 0), a bound above L is L): for any integer or absent bounds
\* it returns without an index error what it returns for the clamped
\* bounds, and _slice_xlat(-1, None) equals _slice_xlat(L - 1, L).
C6_BoundsClamped ==
    /\ last.op = "xlat" =>
          \A L \in {LenSelf(last.pre)} :
             /\ last.xl.ok
             /\ last.xl = SliceXlat(last.pre,
                                    Some(ClampedInto(last.a, 0, L)),
                                    Some(ClampedInto(last.b, L, L)))
    /\ \A L \in {LenSelf(tc)} :
          SliceXlat(tc, Some(-1), None) = SliceXlat(tc, Some(L - 1), Some(L))

\* _slice_xlat was called with a start below -L and a stop above L on a
\* testcase with reducible and fixed parts
C6_Witness ==
    /\ last.op = "xlat"
    /\ LenSelf(tc) = 2
    /\ Len(tc.parts) = 3
    /\ last.a = Some(-3)
    /\ last.b = Some(3)
    /\ last.xl = [ok |-> TRUE, start |-> 0, stop |-> 3]

\* the instance the last call was made on, as it is now
Subject == IF last.who = "tc" THEN tc ELSE cp[1]

\* the logical position of physical part k (1-based) of a reducible part:
\* the number of reducible parts before it
Rank(reducible, k) == Cardinality({j \in 1..(k - 1) : reducible[j]})

\* the physical indices of self, in order, without those of the reducible
\* parts at logical positions start..stop-1
Survivors(self, start, stop) ==
    SelectSeq([k \in 1..Len(self.parts) |-> k],
              LAMBDA k : \/ ~self.reducible[k]
                         \/ Rank(self.reducible, k) < start
                         \/ Rank(self.reducible, k) >= stop)

\* post is pre with exactly the parts at the indices kept, flags unchanged
KeptExactly(pre, post, kept) ==
    /\ post.parts = [n \in 1..Len(kept) |-> pre.parts[kept[n]]]
    /\ post.reducible = [n \in 1..Len(kept) |-> pre.reducible[kept[n]]]

\* C7: for clamped logical bounds start <= stop, rmslice(start, stop)
\* leaves the (part, flag) pairs it found, in order, less the reducible
\* parts at logical positions start..stop-1: fixed parts survive and stay
\* fixed, every other reducible part survives and stays reducible, and the
\* logical length drops by stop - start.
C7_RmsliceDeletesWindow ==
    last.op = "rmslice" =>
       \A L \in {LenSelf(last.pre)} :
          \A start \in {ClampedInto(last.a, 0, L)},
             stop \in {ClampedInto(last.b, L, L)} :
             start <= stop =>
                /\ KeptExactly(last.pre, Subject,
                               Survivors(last.pre, start, stop))
                /\ LenSelf(Subject) = L - (stop - start)

\* rmslice(0, 2) was called on a reducible, a fixed and a reducible part and
\* left the fixed one
C7_Witness ==
    /\ last.op = "rmslice"
    /\ last.who = "tc"
    /\ last.pre.reducible = <<TRUE, FALSE, TRUE>>
    /\ last.a = Some(0)
    /\ last.b = Some(2)
    /\ tc.parts = <<<<"1">>>>
    /\ tc.reducible = <<FALSE>>

\* the fields copy() assigns
SameFields(a, b) ==
    /\ a.cls = b.cls
    /\ a.before = b.before
    /\ a.after = b.after
    /\ a.parts = b.parts
    /\ a.reducible = b.reducible
    /\ a.filename = b.filename
    /\ a.extension = b.extension

\* the instance the last call was not made on, as it is now: the copy for a
\* call on tc (None while there is no copy), tc for a call on the copy
Other == IF last.who = "tc" THEN cp ELSE Some(tc)

Bytes(data) == [i \in 1..Len(data) |-> <<data[i]>>]

\* C9: the byte splitter, loading a file with a sentinel region and a
\* non-empty payload, leaves one single-byte reducible part per payload byte
\* but the last, and after holding that last payload byte, then the DDEND
\* line and the rest of the file (the byte prepended to after is the byte
\* taken from the parts); loading a file without a sentinel region it
\* makes every byte of the file a reducible part and moves nothing.
C9_ByteSplitter ==
    (last.op = "load" /\ err = "ok" /\ tc.cls = "TestcaseChar") =>
       \A tokens \in {TokenLines(FileLines(last.content))} :
          /\ (tokens # {} /\ last.data # <<>>) =>
                /\ tc.parts = Bytes(SubSeq(last.data, 1, Len(last.data) - 1))
                /\ tc.reducible = Repeat(TRUE, Len(last.data) - 1)
                /\ tc.before = last.given.before
                /\ tc.after = <<last.data[Len(last.data)]>> \o last.given.after
          /\ tokens = {} =>
                /\ tc.parts = Bytes(last.content)
                /\ tc.reducible = Repeat(TRUE, Len(last.content))
                /\ tc.before = <<>>
                /\ tc.after = <<>>

\* the byte splitter has loaded a file whose sentinel region holds the
\* payload "\ra\n"
C9_Witness ==
    /\ last.op = "load"
    /\ err = "ok"
    /\ tc.cls = "TestcaseChar"
    /\ last.data = <<"\r", "a", "\n">>
    /\ tc.before = DDBEGIN \o <<"\n">>
    /\ tc.parts = <<<<"\r">>, <<"a">>>>
    /\ tc.after = <<"\n">> \o DDEND \o <<"\n">>

\* a cut-before byte is only the first byte of part, a cut-after byte only
\* its last
CutBytesAtEnds(part) ==
    \A k \in 1..Len(part) :
       /\ part[k] \in DEFAULT_CUT_BEFORE => k = 1
       /\ part[k] \in DEFAULT_CUT_AFTER => k = Len(part)

\* C10: with the default cut sets the symbol splitter's parts for any
\* payload are all non-empty and all reducible and concatenate to the
\* payload; a cut-before byte (] } :) is in a part only as its first byte, a
\* cut-after byte (? = ; { [ newline) only as its last; and every boundary
\* between two consecutive parts is directly after a cut-after byte or
\* directly before a cut-before byte.
C10_SymbolParts ==
    (last.op = "load" /\ err = "ok" /\ tc.cls = "TestcaseSymbol") =>
       /\ Join(tc.parts) = last.data
       /\ tc.reducible = Repeat(TRUE, Len(tc.parts))
       /\ \A i \in 1..Len(tc.parts) :
             tc.parts[i] # <<>> /\ CutBytesAtEnds(tc.parts[i])
       /\ \A i \in 1..(Len(tc.parts) - 1) :
             \/ tc.parts[i][Len(tc.parts[i])] \in DEFAULT_CUT_AFTER
             \/ tc.parts[i + 1][1] \in DEFAULT_CUT_BEFORE

\* the payload "a{a}a" was split after "{" and before "}"
C10_Witness ==
    /\ last.op = "load"
    /\ err = "ok"
    /\ tc.cls = "TestcaseSymbol"
    /\ last.data = <<"a", "{", "a", "}", "a">>
    /\ tc.parts = <<<<"a", "{">>, <<"a">>, <<"}", "a">>>>

(***************************************************************************)
(* What the JS-string claims say of a payload, told without the scanner:   *)
(* positions are 0-based offsets into data, a span [lo, hi) is the bytes   *)
(* data[lo:hi].                                                            *)
(***************************************************************************)
Quotes == {"'", "\""}

\* the k bytes of data from offset p are there and are hex digits
HexAt(data, p, k) ==
    p + k <= Len(data) /\ \A i \in (p + 1)..(p + k) : data[i] \in HexDigits

\* the lengths of the in-string character tokens that can start at p:
\* \uXXXX, \xXX, \u{hex...}, a backslash and one byte, one byte
TokenLengths(data, p) ==
    {1}
    \cup (IF data[p + 1] = "\\" /\ p + 2 <= Len(data) THEN {2} ELSE {})
    \cup (IF data[p + 1] = "\\" /\ p + 2 <= Len(data) /\ data[p + 2] = "x"
             /\ HexAt(data, p + 2, 2) THEN {4} ELSE {})
    \cup (IF data[p + 1] = "\\" /\ p + 2 <= Len(data) /\ data[p + 2] = "u"
             /\ HexAt(data, p + 2, 4) THEN {6} ELSE {})
    \cup {4 + k : k \in {k \in 1..(Len(data) - p - 4) :
                           /\ data[p + 1] = "\\"
                           /\ data[p + 2] = "u"
                           /\ data[p + 3] = "{"
                           /\ HexAt(data, p + 3, k)
                           /\ data[p + 4 + k] = "}"}}

\* the token at p is the longest that can start there
TokenLen(data, p) ==
    CHOOSE n \in TokenLengths(data, p) : \A m \in TokenLengths(data, p) : m <= n

\* the offset of the quote that closes a string of quote q whose tokens
\* start at p, or -1 when the payload ends first
RECURSIVE CloseOf(_, _, _)
CloseOf(data, p, q) ==
    IF p >= Len(data) THEN -1
    ELSE IF data[p + 1] = q THEN p
    ELSE CloseOf(data, p + TokenLen(data, p), q)

\* the spans of the tokens from p up to the closing quote at c
RECURSIVE TokensIn(_, _, _)
TokensIn(data, p, c) ==
    IF p >= c THEN <<>>
    ELSE <<[lo |-> p, hi |-> p + TokenLen(data, p)]>>
         \o TokensIn(data, p + TokenLen(data, p), c)

\* the offsets from p on of the quotes that may open a string; with
\* unescaped, a quote directly after a backslash may not
OpenersFrom(data, p, unescaped) ==
    {j \in p..(Len(data) - 1) :
        /\ data[j + 1] \in Quotes
        /\ unescaped => ~(j >= 1 /\ data[j] = "\\")}

RECURSIVE StringTokens(_, _, _)
\* the tokens from the quote at j on, c being where its string closes
TokensFromQuote(data, j, c, unescaped) ==
    IF c = -1 THEN StringTokens(data, j + 1, unescaped)
    ELSE TokensIn(data, j + 1, c) \o StringTokens(data, c + 1, unescaped)

\* the spans, in order, of the in-string character tokens that lie in
\* strings closed by the quote that opened them, reading data from p
\* outside any string; a quote that nothing closes is ordinary text
StringTokens(data, p, unescaped) ==
    IF OpenersFrom(data, p, unescaped) = {} THEN <<>>
    ELSE \* the singleton binds the offset of the first opener
         LET j == Least(OpenersFrom(data, p, unescaped))
         IN  TokensFromQuote(data, j, CloseOf(data, j + 1, data[j + 1]), unescaped)

\* data[lo:hi]
Span(data, lo, hi) == SubSeq(data, lo + 1, hi)

\* the parts the tokens T (not empty) make of data: every token a reducible
\* part, the bytes between two tokens one fixed part
RECURSIVE TokenParts(_, _, _)
TokenParts(data, T, k) ==
    IF k > Len(T) THEN <<>>
    ELSE (IF k > 1 /\ T[k - 1].hi < T[k].lo
          THEN <<[text |-> Span(data, T[k - 1].hi, T[k].lo), red |-> FALSE]>>
          ELSE <<>>)
         \o <<[text |-> Span(data, T[k].lo, T[k].hi), red |-> TRUE]>>
         \o TokenParts(data, T, k + 1)

\* self is what the load that handed data to split_parts leaves when the
\* tokens of data are T
SplitAtTokens(self, given, data, T) ==
    IF T = <<>>
    THEN /\ self.reducible = Repeat(FALSE, Len(self.parts))
         /\ Join(self.parts) = data
         /\ self.before = given.before
         /\ self.after = given.after
    ELSE \A E \in {TokenParts(data, T, 1)} :
            /\ self.parts = [i \in 1..Len(E) |-> E[i].text]
            /\ self.reducible = [i \in 1..Len(E) |-> E[i].red]
            /\ self.before = given.before \o Span(data, 0, T[1].lo)
            /\ self.after = Span(data, T[Len(T)].hi, Len(data)) \o given.after

\* C11: after a JS-string load a part is reducible exactly when it is one
\* in-string character token (a \uXXXX, \xXX or \u{hex...} escape, a
\* backslash and one byte, or one byte) of a string closed by the quote
\* that opened it; opening quotes, closing quotes and text outside strings
\* are fixed, and what lies before the first token and after the last is
\* folded into before and after.
C11_TokensReducible ==
    (last.op = "load" /\ err = "ok" /\ tc.cls = "TestcaseJsStr") =>
       \A T \in {StringTokens(last.data, 0, FALSE)} :
          SplitAtTokens(tc, last.given, last.data, T)

\* the payload "a"a'a' was loaded: two strings of one byte each with a
\* byte of other text between them
C11_Witness ==
    /\ last.op = "load"
    /\ err = "ok"
    /\ tc.cls = "TestcaseJsStr"
    /\ tc.before = <<"\"">>
    /\ tc.parts = <<<<"a">>, <<"\"", "a", "'">>, <<"a">>>>
    /\ tc.reducible = <<TRUE, FALSE, TRUE>>
    /\ tc.after = <<"'">>

\* the offset of the first quote that opens a string the payload ends in,
\* reading data from p outside any string: {} or {the offset}
RECURSIVE UnmatchedFrom(_, _)
UnmatchedFrom(data, p) ==
    IF OpenersFrom(data, p, FALSE) = {} THEN {}
    ELSE LET j == Least(OpenersFrom(data, p, FALSE))
         IN  IF CloseOf(data, j + 1, data[j + 1]) = -1 THEN {j}
             ELSE UnmatchedFrom(data, CloseOf(data, j + 1, data[j + 1]) + 1)

\* the reducible parts of self, in order
ReducibleParts(self) ==
    LET idx == SelectSeq([i \in 1..Len(self.parts) |-> i],
                         LAMBDA i : self.reducible[i])
    IN  [n \in 1..Len(idx) |-> self.parts[idx[n]]]

\* the reducible parts split_parts finds in data alone
TokensOf(data) ==
    ReducibleParts(SplitPartsJsStr(NewTestcase("TestcaseJsStr"), data).self)

\* C12: when a quote opens a string and the payload ends before a matching
\* quote, that quote is ordinary fixed text and the scan starts again,
\* outside any string, right after it: the reducible tokens of the payload
\* are those of the strings closed before that quote followed by those
\* found by scanning only the text after it, so a closed string that
\* follows an unmatched quote is tokenised, and no byte is lost.
C12_RescanAfterUnmatched ==
    (last.op = "load" /\ err = "ok" /\ tc.cls = "TestcaseJsStr") =>
       \A j \in UnmatchedFrom(last.data, 0) :
          /\ ReducibleParts(tc)
                = TokensOf(Span(last.data, 0, j))
                  \o TokensOf(Span(last.data, j + 1, Len(last.data)))
          /\ tc.before \o Join(tc.parts) \o tc.after
                = last.given.before \o last.data \o last.given.after

\* the payload '"a" was loaded: nothing closes the first quote, and the
\* string after it was tokenised
C12_Witness ==
    /\ last.op = "load"
    /\ err = "ok"
    /\ tc.cls = "TestcaseJsStr"
    /\ last.data = <<"'", "\"", "a", "\"">>
    /\ tc.before = <<"'", "\"">>
    /\ tc.parts = <<<<"a">>>>
    /\ tc.reducible = <<TRUE>>
    /\ tc.after = <<"\"">>

RECURSIVE RewindsShrink(_, _, _)
\* the rewind from the state st the inner loop broke in, inside a string:
\* a part to rewind to exists, and the buffer scanned next is shorter
RewindShrinks(st, parts, points, data) ==
    /\ points # {}
    /\ \A idx \in {i \in points : \A j \in points : j <= i} :
          /\ Len(Join(From(parts, idx + 1))) < Len(data)
          /\ RewindsShrink(PySlice(parts, 0, idx + 1),
                           SelectSeq(st.chars, LAMBDA c : c < idx),
                           Join(From(parts, idx + 1)))

\* the pass of the outer loop that ended the inner loop in state st
PassShrinks(st, data) ==
    st.instr # None =>
       RewindShrinks(st,
                     IF st.last # Len(data)
                     THEN Append(st.parts, From(data, st.last)) ELSE st.parts,
                     RewindPoints(st, IF st.last # Len(data)
                                      THEN Append(st.parts, From(data, st.last))
                                      ELSE st.parts),
                     data)

\* every pass of the outer loop of split_parts, started with these parts,
\* chars and data, that ends inside a string finds a part to rewind to and
\* hands a strictly shorter buffer to the next pass
RewindsShrink(parts, chars, data) ==
    PassShrinks(JsInner([parts |-> parts, chars |-> chars, instr |-> None,
                         last |-> 0], data),
                data)

\* C13: for every payload, split_parts of a freshly reset TestcaseJsStr
\* comes to an end, each rewind starting again on a strictly shorter
\* buffer, and never raises "error while backtracking": whenever the
\* payload ends inside a string there is a part that ends with the open
\* quote and is no in-string character token.
C13_ScanEndsWithoutError ==
    (last.op = "load" /\ tc.cls = "TestcaseJsStr") =>
       /\ err = "ok"
       /\ RewindsShrink(<<>>, <<>>, last.data)

\* the payload 'a"a was loaded: both quotes open a string that nothing
\* closes, so the scan rewound twice
C13_Witness ==
    /\ last.op = "load"
    /\ err = "ok"
    /\ tc.cls = "TestcaseJsStr"
    /\ last.data = <<"'", "a", "\"", "a">>
    /\ tc.parts = <<<<"'">>, <<"a", "\"">>, <<"a">>>>
    /\ tc.reducible = <<FALSE, FALSE, FALSE>>

\* a is a prefix of b
IsPrefix(a, b) == Len(a) <= Len(b) /\ SubSeq(b, 1, Len(a)) = a

\* C14: for each of the four splitters split_parts only appends: called on
\* an instance that holds parts, it leaves the parts held and their flags
\* an unchanged prefix of parts and reducible, and what it does to before
\* and after does not depend on what was held (it adds to them what it
\* adds on a new instance).
C14_SplitOnlyAppends ==
    (last.op = "split" /\ ~last.raised) =>
       \A fresh \in {SplitParts(NewTestcase(tc.cls), last.data).self} :
          /\ IsPrefix(last.pre.parts, tc.parts)
          /\ IsPrefix(last.pre.reducible, tc.reducible)
          /\ tc.before = last.pre.before \o fresh.before
          /\ tc.after = fresh.after \o last.pre.after


\* C15: outside a quoted string only an unescaped quote opens a string: a
\* ' or " directly preceded by a backslash outside any string starts no
\* string, so after a JS-string load the reducible parts are exactly the
\* in-string character tokens of the strings opened by unescaped quotes
\* and the bytes after an escaped quote are not tokenised because of it.
C15_OnlyUnescapedQuoteOpens ==
    (last.op = "load" /\ err = "ok" /\ tc.cls = "TestcaseJsStr") =>
       \A T \in {StringTokens(last.data, 0, TRUE)} :
          SplitAtTokens(tc, last.given, last.data, T)


\* C16: rmslice never grows the testcase: for any start and stop, those
\* whose clamped values have start > stop included, the number of parts
\* and the logical length after the call are at most what they were before
\* it and no part occurs more often than before.
C16_RmsliceNeverGrows ==
    last.op = "rmslice" =>
       /\ Len(Subject.parts) <= Len(last.pre.parts)
       /\ LenSelf(Subject) <= LenSelf(last.pre)
       /\ \A k \in 1..Len(Subject.parts) :
             Count(Subject.parts, Subject.parts[k])
                <= Count(last.pre.parts, Subject.parts[k])


\* C17: the cut sets a TestcaseSymbol was configured with, through
\* set_cut_chars or handle_args, before load are the sets the split made
\* by load uses: load's reset does not put the default sets back, so the
\* instance still holds the configured sets after load and its parts are
\* those the configured cutter makes of the payload.
C17_LoadKeepsCutSets ==
    (last.op = "load" /\ err = "ok" /\ tc.cls = "TestcaseSymbol") =>
       /\ tc.cut_before = last.pre.cut_before
       /\ tc.cut_after = last.pre.cut_after
       /\ \A fresh \in {SetCutChars(NewTestcase("TestcaseSymbol"),
                                    last.pre.cut_before, last.pre.cut_after)} :
             tc.parts = SplitPartsSymbol(fresh, last.data).parts

====
